---------------------------- MODULE Spec2Model ----------------------------
(***************************************************************************)
(* Netlink message framing of netlink-rs: the 16-byte message header, the  *)
(* payload variants, the message codec and the socket's send and receive   *)
(* (the multipart assembly loop over the socket's scratch buffer).         *)
(*                                                                         *)
(* Representation.  TLC's integers end at 2^31-1, so a u32 or usize value  *)
(* is kept as its base-256 digits, least significant first (four digits    *)
(* for u32, eight for usize on a 64-bit target); u16 values and buffer     *)
(* offsets are plain integers.  A byte string is a sequence over 0..255.   *)
(***************************************************************************)
EXTENDS Integers, Sequences, FiniteSets, TLC

VARIABLES
    endian,     \* the host's byte order
    \* A caller exercising the codec:
    cop,        \* the last codec call made
    hdr,        \* the header under construction
    msg,        \* the message built by Msg::new
    wire,       \* the bytes produced by the last encode, as the decoder gets them
    wkind,      \* what was encoded into wire
    tam,        \* what happened to wire on the way: "intact", "extended", "cut"
    res,        \* the result of the last decode
    \* A caller of the conversions (message type, address):
    uop,        \* the conversion made
    uin,        \* the value it was given
    uout,       \* what came back
    \* The sockets, each driven by its own thread:
    buf,        \* Socket.buf, the receive scratch buffer, up to its last written byte
    pc,         \* where the socket's thread is: "idle", "assemble", "panicked"
    cur,        \* the datagram recvfrom handed the current (or last) recv
    off,        \* recv's cursor n
    messages,   \* recv's output vector
    ret,        \* what the last recv returned
    sret,       \* what the last send returned
    inbox,      \* the kernel's queue of datagrams for the socket
    arrived     \* how many datagrams were queued for the socket so far

codecVars == <<cop, hdr, msg, wire, wkind, tam, res>>
unitVars == <<uop, uin, uout>>
sockVars == <<buf, pc, cur, off, messages, ret, sret, inbox, arrived>>
vars == <<endian, codecVars, unitVars, sockVars>>

\* ------------------------------------------------------------------ words

\* Bytes of a u32 and of a usize (x86_64 Linux).
U32Bytes == 4
UsizeBytes == 8

RECURSIVE Digits(_, _)
\* The w low base-256 digits of the natural number v, least significant first.
Digits(v, w) == IF w = 0 THEN <<>> ELSE <<v % 256>> \o Digits(v \div 256, w - 1)

U32(v) == Digits(v, U32Bytes)
Usize(v) == Digits(v, UsizeBytes)

Zeros(k) == [i \in 1..k |-> 0]

Reverse(s) == [i \in 1..Len(s) |-> s[Len(s) + 1 - i]]

\* `x as usize` of a u32: zero extension.
AsUsize(d) == d \o Zeros(UsizeBytes - Len(d))

\* `x as u32` of a usize: the low four bytes, the rest dropped silently.
AsU32(d) == SubSeq(d, 1, U32Bytes)

\* A usize that is a valid index of a small buffer, as an integer.
IsSmall(d) == \A i \in 3..Len(d) : d[i] = 0
Small(d) == d[1] + 256 * d[2]

RECURSIVE AddC(_, _, _)
\* Digit-wise a + b + c; the last element of the result is the carry out.
AddC(a, b, c) ==
    IF a = <<>> THEN <<c>>
    ELSE LET t == a[1] + b[1] + c
         IN  <<t % 256>> \o AddC(Tail(a), Tail(b), t \div 256)

RECURSIVE SubB(_, _, _)
\* Digit-wise a - b - c; the last element of the result is the borrow out.
SubB(a, b, c) ==
    IF a = <<>> THEN <<c>>
    ELSE LET t == a[1] - b[1] - c
         IN  <<t % 256>> \o SubB(Tail(a), Tail(b), IF t < 0 THEN 1 ELSE 0)

\* Wrapping sum and difference, and whether they overflowed.
WAdd(a, b) == SubSeq(AddC(a, b, 0), 1, Len(a))
AddOverflows(a, b) == AddC(a, b, 0)[Len(a) + 1] = 1
WSub(a, b) == SubSeq(SubB(a, b, 0), 1, Len(a))
SubOverflows(a, b) == SubB(a, b, 0)[Len(a) + 1] = 1

\* a < b for two words of the same width.
WLess(a, b) == SubOverflows(a, b)

RECURSIVE BitOr(_, _, _)
\* a | b on the low k bits.
BitOr(a, b, k) ==
    IF k = 0 THEN 0
    ELSE (IF a % 2 = 1 \/ b % 2 = 1 THEN 1 ELSE 0)
         + 2 * BitOr(a \div 2, b \div 2, k - 1)

Or16(a, b) == BitOr(a, b, 16)

\* ------------------------------------------------------- native byte order

Endians == {"LE", "BE"}

\* byteorder's write_u32::<NativeEndian> / the in-memory bytes of a u32.
WriteU32(d, e) == IF e = "LE" THEN d ELSE Reverse(d)

\* The in-memory bytes of a u16.
WriteU16(v, e) ==
    IF e = "LE" THEN <<v % 256, v \div 256>> ELSE <<v \div 256, v % 256>>

\* Cursor::read_u32::<NativeEndian>: the four bytes at pos, or UnexpectedEof.
ReadU32(bytes, pos, e) ==
    IF Len(bytes) - pos < 4
    THEN [ok |-> FALSE, val |-> U32(0), pos |-> pos]
    ELSE [ok |-> TRUE,
          val |-> LET b == SubSeq(bytes, pos + 1, pos + 4)
                  IN  IF e = "LE" THEN b ELSE Reverse(b),
          pos |-> pos + 4]

\* Cursor::read_u16::<NativeEndian>.
ReadU16(bytes, pos, e) ==
    IF Len(bytes) - pos < 2
    THEN [ok |-> FALSE, val |-> 0, pos |-> pos]
    ELSE [ok |-> TRUE,
          val |-> IF e = "LE"
                  THEN bytes[pos + 1] + 256 * bytes[pos + 2]
                  ELSE 256 * bytes[pos + 1] + bytes[pos + 2],
          pos |-> pos + 2]

\* ------------------------------------------------------------ message type

\* From<u16> for MsgType.
MsgTypeFrom(t) ==
    CASE t = 0  -> [tag |-> "Request", v |-> 0]
      [] t = 1  -> [tag |-> "Noop", v |-> 0]
      [] t = 2  -> [tag |-> "Error", v |-> 0]
      [] t = 3  -> [tag |-> "Done", v |-> 0]
      [] t = 4  -> [tag |-> "Overrun", v |-> 0]
      [] t = 10 -> [tag |-> "MinType", v |-> 0]
      [] OTHER  -> [tag |-> "UserDefined", v |-> t]

\* A faulty Into<u16> for MsgType: MinType taken for 0x10.
MsgTypeInto_min16(m) ==
    CASE m.tag = "Request" -> 0
      [] m.tag = "Noop"    -> 1
      [] m.tag = "Error"   -> 2
      [] m.tag = "Done"    -> 3
      [] m.tag = "Overrun" -> 4
      [] m.tag = "MinType" -> 16
      [] OTHER             -> m.v

\* Into<u16> for MsgType.
MsgTypeInto(m) ==
    CASE m.tag = "Request" -> 0
      [] m.tag = "Noop"    -> 1
      [] m.tag = "Error"   -> 2
      [] m.tag = "Done"    -> 3
      [] m.tag = "Overrun" -> 4
      [] m.tag = "MinType" -> 10
      [] OTHER             -> m.v

\* Into<u16> for Flags, GetFlags.
FlagRequest == 1
FlagMulti == 2
FlagAck == 4
GetFlagDump == 768
FlagEcho == 8
GetFlagRoot == 256
GetFlagMatch == 512
GetFlagAtomic == 1024

\* Into<u16> for NewFlags.
NewFlagReplace == 256
NewFlagExcl == 512
NewFlagCreate == 1024
NewFlagAppend == 2048

\* ------------------------------------------------------------------ sizes

NLMSG_ALIGNTO == 4

\* size_of::<NlMsgHeader>(): u32, u16, u16, u32, u32 under repr(C).
SizeOfHeader == 16

\* (len + (NLMSG_ALIGNTO - 1)) & !(NLMSG_ALIGNTO - 1) on a small length.
nlmsg_align(len) ==
    ((len + (NLMSG_ALIGNTO - 1)) \div NLMSG_ALIGNTO) * NLMSG_ALIGNTO

nlmsg_header_length == nlmsg_align(SizeOfHeader)

\* len + nlmsg_align(nlmsg_header_length()), in usize.
nlmsg_length(len) == WAdd(len, Usize(nlmsg_align(nlmsg_header_length)))


\* ----------------------------------------------------------------- results

\* io::Result: Ok((value, bytes consumed)) or Err(kind).  A panic is not a
\* value: the thread unwinds and the caller gets nothing.
Ok(v, k) == [ok |-> TRUE, val |-> v, n |-> k]
Fail(kind) == [ok |-> FALSE, err |-> kind]
Panic == [ok |-> FALSE, err |-> "panic"]
NoResult == [ok |-> FALSE, err |-> "not called"]

IsError(r) == ~r.ok /\ r.err \notin {"panic", "not called"}

\* ------------------------------------------------------------------ header

\* struct NlMsgHeader.
Header(len, t, f, s, p) ==
    [msg_length |-> len, nl_type |-> t, flags |-> f, seq |-> s, pid |-> p]

user_defined(t) == Header(U32(nlmsg_header_length), t, FlagRequest, U32(0), U32(0))

request ==
    Header(U32(nlmsg_header_length), MsgTypeInto([tag |-> "Request", v |-> 0]),
           FlagRequest, U32(0), U32(0))

done ==
    Header(U32(nlmsg_header_length), MsgTypeInto([tag |-> "Done", v |-> 0]),
           FlagMulti, U32(0), U32(0))

\* A faulty error(): the four bytes of the error code left out.
error_no_code ==
    Header(AsU32(nlmsg_length(Usize(nlmsg_header_length))),
           MsgTypeInto([tag |-> "Error", v |-> 0]), 0, U32(0), U32(0))

error ==
    Header(AsU32(nlmsg_length(Usize(nlmsg_header_length + 4))),
           MsgTypeInto([tag |-> "Error", v |-> 0]), 0, U32(0), U32(0))

msg_type(h) == MsgTypeFrom(h.nl_type)

msg_length(h) == h.msg_length

\* self.msg_length = nlmsg_length(len as usize) as u32
data_length(h, len) == [h EXCEPT !.msg_length = AsU32(nlmsg_length(AsUsize(len)))]

multipart(h) == [h EXCEPT !.flags = Or16(h.flags, FlagMulti)]

ack(h) == [h EXCEPT !.flags = Or16(h.flags, FlagAck)]

\* A faulty dump(): the Root bit alone.
dump_root_only(h) == [h EXCEPT !.flags = Or16(h.flags, GetFlagRoot)]

dump(h) == [h EXCEPT !.flags = Or16(h.flags, GetFlagDump)]

echo(h) == [h EXCEPT !.flags = Or16(h.flags, FlagEcho)]

replace(h) == [h EXCEPT !.flags = Or16(h.flags, NewFlagReplace)]

excl(h) == [h EXCEPT !.flags = Or16(h.flags, NewFlagExcl)]

create(h) == [h EXCEPT !.flags = Or16(h.flags, NewFlagCreate)]

append(h) == [h EXCEPT !.flags = Or16(h.flags, NewFlagAppend)]

root(h) == [h EXCEPT !.flags = Or16(h.flags, GetFlagRoot)]

match_provided(h) == [h EXCEPT !.flags = Or16(h.flags, GetFlagMatch)]

atomic(h) == [h EXCEPT !.flags = Or16(h.flags, GetFlagAtomic)]

\* The flag setters by name.
FlagSetters ==
    {"multipart", "ack", "echo", "replace", "excl", "create", "append",
     "root", "match_provided", "atomic", "dump"}

\* h after the call of the flag setter named n.
ApplyFlag(n, h) ==
    CASE n = "multipart" -> multipart(h)
      [] n = "ack" -> ack(h)
      [] n = "echo" -> echo(h)
      [] n = "replace" -> replace(h)
      [] n = "excl" -> excl(h)
      [] n = "create" -> create(h)
      [] n = "append" -> append(h)
      [] n = "root" -> root(h)
      [] n = "match_provided" -> match_provided(h)
      [] n = "atomic" -> atomic(h)
      [] n = "dump" -> dump(h)

seq(h, v) == [h EXCEPT !.seq = v]

pid(h, v) == [h EXCEPT !.pid = v]

\* A faulty NlMsgHeader::bytes: flags written before the type.
NlMsgHeader_bytes_swapped(h, e) ==
    WriteU32(h.msg_length, e) \o WriteU16(h.flags, e) \o WriteU16(h.nl_type, e)
    \o WriteU32(h.seq, e) \o WriteU32(h.pid, e)

\* A faulty NlMsgHeader::bytes: the fields in network byte order.
NlMsgHeader_bytes_network(h, e) ==
    WriteU32(h.msg_length, "BE") \o WriteU16(h.nl_type, "BE")
    \o WriteU16(h.flags, "BE") \o WriteU32(h.seq, "BE") \o WriteU32(h.pid, "BE")

\* NlMsgHeader::bytes: the struct's memory, field after field.
NlMsgHeader_bytes(h, e) ==
    WriteU32(h.msg_length, e) \o WriteU16(h.nl_type, e) \o WriteU16(h.flags, e)
    \o WriteU32(h.seq, e) \o WriteU32(h.pid, e)

\* A faulty NlMsgHeader::from_bytes: reports the whole input as consumed.
NlMsgHeader_from_bytes_all(bytes, e) ==
    LET len == ReadU32(bytes, 0, e)
        typ == ReadU16(bytes, len.pos, e)
        flg == ReadU16(bytes, typ.pos, e)
        sq  == ReadU32(bytes, flg.pos, e)
        pd  == ReadU32(bytes, sq.pos, e)
    IN  IF ~len.ok \/ ~typ.ok \/ ~flg.ok \/ ~sq.ok \/ ~pd.ok
        THEN Fail("UnexpectedEof")
        ELSE Ok(Header(len.val, typ.val, flg.val, sq.val, pd.val), Len(bytes))

\* NlMsgHeader::from_bytes: five cursor reads, each may end the call.
NlMsgHeader_from_bytes(bytes, e) ==
    LET len == ReadU32(bytes, 0, e)
        typ == ReadU16(bytes, len.pos, e)
        flg == ReadU16(bytes, typ.pos, e)
        sq  == ReadU32(bytes, flg.pos, e)
        pd  == ReadU32(bytes, sq.pos, e)
    IN  IF ~len.ok \/ ~typ.ok \/ ~flg.ok \/ ~sq.ok \/ ~pd.ok
        THEN Fail("UnexpectedEof")
        ELSE Ok(Header(len.val, typ.val, flg.val, sq.val, pd.val), pd.pos)

\* ----------------------------------------------------------------- payload

PNone == [tag |-> "None"]
PData(b) == [tag |-> "Data", data |-> b]
PAck(h) == [tag |-> "Ack", hdr |-> h]
PErr(h) == [tag |-> "Err", hdr |-> h]

\* A faulty Payload::data: refuses a buffer holding exactly len bytes.
Payload_data_strict(bytes, len) ==
    LET l == Usize(Len(bytes))
    IN  IF WLess(l, len) \/ l = len
        THEN Fail("InvalidData")
        ELSE Ok(PData(SubSeq(bytes, 1, Small(len))), Small(len))

\* A faulty Payload::data: the payload is everything that is left.
Payload_data_rest(bytes, len) ==
    LET l == Usize(Len(bytes))
    IN  IF WLess(l, len)
        THEN Fail("InvalidData")
        ELSE Ok(PData(bytes), Len(bytes))

\* Payload::data; len is a usize.
Payload_data(bytes, len) ==
    LET l == Usize(Len(bytes))
    IN  IF WLess(l, len)
        THEN Fail("InvalidData")
        ELSE Ok(PData(SubSeq(bytes, 1, Small(len))), Small(len))

\* A faulty Payload::nlmsg_error: the four bytes of the code not counted.
Payload_nlmsg_error_short(bytes, e) ==
    LET err == ReadU32(bytes, 0, e)
    IN  IF ~err.ok THEN Fail("UnexpectedEof")
        ELSE LET k == err.pos
                 h == NlMsgHeader_from_bytes(SubSeq(bytes, k + 1, Len(bytes)), e)
             IN  IF ~h.ok THEN h
                 ELSE IF err.val = U32(0)
                      THEN Ok(PAck(h.val), h.n)
                      ELSE Ok(PErr(h.val), h.n)

\* A faulty Payload::nlmsg_error: only the code 1 is taken for an error.
Payload_nlmsg_error_one(bytes, e) ==
    LET err == ReadU32(bytes, 0, e)
    IN  IF ~err.ok THEN Fail("UnexpectedEof")
        ELSE LET k == err.pos
                 h == NlMsgHeader_from_bytes(SubSeq(bytes, k + 1, Len(bytes)), e)
             IN  IF ~h.ok THEN h
                 ELSE IF err.val = U32(1)
                      THEN Ok(PErr(h.val), k + h.n)
                      ELSE Ok(PAck(h.val), k + h.n)

\* Payload::nlmsg_error.
Payload_nlmsg_error(bytes, e) ==
    LET err == ReadU32(bytes, 0, e)
    IN  IF ~err.ok THEN Fail("UnexpectedEof")
        ELSE LET k == err.pos
                 h == NlMsgHeader_from_bytes(SubSeq(bytes, k + 1, Len(bytes)), e)
             IN  IF ~h.ok THEN h
                 ELSE IF err.val = U32(0)
                      THEN Ok(PAck(h.val), k + h.n)
                      ELSE Ok(PErr(h.val), k + h.n)

\* A faulty Payload::bytes: an error record written with the code zero.
Payload_bytes_err_zero(p, e) ==
    CASE p.tag = "None" -> <<>>
      [] p.tag = "Data" -> p.data
      [] p.tag = "Ack"  -> WriteU32(U32(0), e) \o NlMsgHeader_bytes(p.hdr, e)
      [] p.tag = "Err"  -> WriteU32(U32(0), e) \o NlMsgHeader_bytes(p.hdr, e)

\* Payload::bytes.
Payload_bytes(p, e) ==
    CASE p.tag = "None" -> <<>>
      [] p.tag = "Data" -> p.data
      [] p.tag = "Ack"  -> WriteU32(U32(0), e) \o NlMsgHeader_bytes(p.hdr, e)
      [] p.tag = "Err"  -> WriteU32(U32(1), e) \o NlMsgHeader_bytes(p.hdr, e)

\* ----------------------------------------------------------------- message

\* Msg::new: any header with any payload.
Msg_new(h, p) == [header |-> h, payload |-> p]

\* A faulty payload length: the header's length taken for the payload's.
MsgLenWhole(h) == AsUsize(msg_length(h))

\* The payload length of the data branch of Msg::from_bytes:
\* hdr.msg_length() as usize - nlmsg_header_length().
MsgLen(h) == WSub(AsUsize(msg_length(h)), Usize(nlmsg_header_length))

\* Whether that subtraction goes below zero.
MsgLenUnderflows(h) ==
    SubOverflows(AsUsize(msg_length(h)), Usize(nlmsg_header_length))

\* Msg::from_bytes.  checks: the build has overflow checks (a debug build
\* panics on the subtraction going below zero, a release build wraps).
Msg_from_bytes(bytes, e, checks) ==
    LET h == NlMsgHeader_from_bytes(bytes, e)
    IN  IF ~h.ok THEN h
        ELSE LET rest == SubSeq(bytes, h.n + 1, Len(bytes))
                 t == msg_type(h.val).tag
                 p == CASE t = "Done"  -> Ok(PNone, 0)
                        [] t = "Error" -> Payload_nlmsg_error(rest, e)
                        [] OTHER ->
                             IF MsgLenUnderflows(h.val) /\ checks
                             THEN Panic
                             ELSE Payload_data(rest, MsgLen(h.val))
             IN  IF ~p.ok THEN p
                 ELSE Ok(Msg_new(h.val, p.val), h.n + p.n)

\* Msg::bytes.
Msg_bytes(m, e) == NlMsgHeader_bytes(m.header, e) \o Payload_bytes(m.payload, e)


\* ------------------------------------------------------- the codec's caller

\* Values the caller passes.
UserTypes == {16}
DataLens == {U32(2), U32(4), <<240, 255, 255, 255>>}
SeqVals == {<<4, 3, 2, 1>>, U32(1)}
PidVals == {U32(9)}
EmbeddedHeader == dump(seq(pid(data_length(request, U32(4)), U32(9)), U32(1)))
EmbeddedHeaders ==
    {EmbeddedHeader, seq(done, <<4, 3, 2, 1>>),
     data_length(user_defined(16), <<240, 255, 255, 255>>)}
Payloads ==
    {PNone, PData(<<>>), PData(<<7, 8>>), PData(<<7, 8, 9>>)}
    \cup {PAck(h) : h \in EmbeddedHeaders}
    \cup {PErr(h) : h \in EmbeddedHeaders}
ErrorCodes == {U32(0), U32(1), <<0, 0, 0, 1>>}
Junk == <<1, 1, 1>>

NoHeader == Header(U32(0), 0, 0, U32(0), U32(0))
NoMsg == Msg_new(NoHeader, PNone)

CodecInit ==
    /\ cop = "start"
    /\ hdr = NoHeader
    /\ msg = NoMsg
    /\ wire = <<>>
    /\ wkind = "none"
    /\ tam = "intact"
    /\ res = NoResult

\* NlMsgHeader::request(), done(), error(), user_defined(t).
Construct ==
    /\ cop = "start"
    /\ hdr' \in {request, done, error} \cup {user_defined(t) : t \in UserTypes}
    /\ cop' = "header"
    /\ UNCHANGED <<endian, unitVars, sockVars, msg, wire, wkind, tam, res>>

\* One chained setter call on the header.
Setter ==
    /\ cop = "header"
    /\ \/ \E len \in DataLens : hdr' = data_length(hdr, len)
       \/ hdr' = multipart(hdr)
       \/ hdr' = ack(hdr)
       \/ hdr' = dump(hdr)
       \/ \E v \in SeqVals : hdr' = seq(hdr, v)
       \/ \E v \in PidVals : hdr' = pid(hdr, v)
    /\ UNCHANGED <<endian, unitVars, sockVars, cop, msg, wire, wkind, tam, res>>

\* One chained call of any flag setter on the header.
FlagSetter ==
    /\ cop = "header"
    /\ \E n \in FlagSetters : hdr' = ApplyFlag(n, hdr)
    /\ UNCHANGED <<endian, unitVars, sockVars, cop, msg, wire, wkind, tam, res>>

\* hdr.bytes()
EncodeHeader ==
    /\ cop = "header"
    /\ wire' = NlMsgHeader_bytes(hdr, endian)
    /\ wkind' = "header"
    /\ cop' = "encoded"
    /\ UNCHANGED <<endian, unitVars, sockVars, hdr, msg, tam, res>>

\* An error record as the kernel writes it: a code, then the header.
EncodeErrorRecord ==
    /\ cop = "header"
    /\ \E code \in ErrorCodes :
         wire' = WriteU32(code, endian) \o NlMsgHeader_bytes(hdr, endian)
    /\ wkind' = "errrec"
    /\ cop' = "encoded"
    /\ UNCHANGED <<endian, unitVars, sockVars, hdr, msg, tam, res>>

\* Msg::new(hdr, payload)
NewMsg ==
    /\ cop = "header"
    /\ \E p \in Payloads : msg' = Msg_new(hdr, p)
    /\ cop' = "msg"
    /\ UNCHANGED <<endian, unitVars, sockVars, hdr, wire, wkind, tam, res>>

\* msg.bytes()
EncodeMsg ==
    /\ cop = "msg"
    /\ wire' = Msg_bytes(msg, endian)
    /\ wkind' = "msg"
    /\ cop' = "encoded"
    /\ UNCHANGED <<endian, unitVars, sockVars, hdr, msg, tam, res>>

\* The bytes reach the decoder with other bytes after them.
Extend ==
    /\ cop = "encoded" /\ tam = "intact"
    /\ wire' = wire \o Junk
    /\ tam' = "extended"
    /\ UNCHANGED <<endian, unitVars, sockVars, cop, hdr, msg, wkind, res>>

\* The bytes reach the decoder cut short.
Cut ==
    /\ cop = "encoded" /\ tam = "intact"
    /\ \E k \in {3, 15, 19, Len(wire) - 1} :
         /\ 0 <= k /\ k < Len(wire)
         /\ wire' = SubSeq(wire, 1, k)
    /\ tam' = "cut"
    /\ UNCHANGED <<endian, unitVars, sockVars, cop, hdr, msg, wkind, res>>

\* NlMsgHeader::from_bytes(&wire)
DecodeHeader ==
    /\ cop = "encoded"
    /\ res' = NlMsgHeader_from_bytes(wire, endian)
    /\ cop' = "NlMsgHeader::from_bytes"
    /\ UNCHANGED <<endian, unitVars, sockVars, hdr, msg, wire, wkind, tam>>

\* Payload::nlmsg_error(&wire)
DecodeErrorRecord ==
    /\ cop = "encoded"
    /\ res' = Payload_nlmsg_error(wire, endian)
    /\ cop' = "Payload::nlmsg_error"
    /\ UNCHANGED <<endian, unitVars, sockVars, hdr, msg, wire, wkind, tam>>

\* Msg::from_bytes(&wire), in a build with or without overflow checks.
DecodeMsg ==
    /\ cop = "encoded"
    /\ \E checks \in BOOLEAN : res' = Msg_from_bytes(wire, endian, checks)
    /\ cop' = "Msg::from_bytes"
    /\ UNCHANGED <<endian, unitVars, sockVars, hdr, msg, wire, wkind, tam>>

CodecNext ==
    \/ Construct \/ Setter \/ EncodeHeader \/ EncodeErrorRecord \/ NewMsg
    \/ EncodeMsg \/ Extend \/ Cut \/ DecodeHeader \/ DecodeErrorRecord
    \/ DecodeMsg



\* --------------------------------------------------------------- addresses

AF_NETLINK == 16
AF_INET == 2

\* NetlinkAddr::new
NetlinkAddr_new(p, groups) ==
    [nl_family |-> AF_NETLINK, nl_pad |-> 0, nl_pid |-> p, nl_groups |-> groups]

\* The generic sockaddr the kernel fills in for a datagram's sender: the
\* family, then sockaddr_nl's pad, pid and groups inside sa_data.
Sockaddr(family, p, groups, e) ==
    [sa_family |-> family,
     sa_data |-> WriteU16(0, e) \o WriteU32(p, e) \o WriteU32(groups, e)
                 \o Zeros(4)]

\* A faulty sockaddr_to_netlinkaddr: pid and groups passed through ntohl.
sockaddr_to_netlinkaddr_ntohl(sa, e) ==
    IF sa.sa_family = AF_NETLINK
    THEN Ok(NetlinkAddr_new(ReadU32(sa.sa_data, 2, "BE").val,
                            ReadU32(sa.sa_data, 6, "BE").val), 0)
    ELSE Fail("InvalidInput")

\* sockaddr_to_netlinkaddr
sockaddr_to_netlinkaddr(sa, e) ==
    IF sa.sa_family = AF_NETLINK
    THEN Ok(NetlinkAddr_new(ReadU32(sa.sa_data, 2, e).val,
                            ReadU32(sa.sa_data, 6, e).val), 0)
    ELSE Fail("InvalidInput")

\* NetlinkAddr::as_sockaddr: sixteen bytes are read from the twelve of
\* sockaddr_nl, so the last four are whatever lies behind the struct.
as_sockaddr(a, e, stray) ==
    [sa_family |-> a.nl_family,
     sa_data |-> WriteU16(a.nl_pad, e) \o WriteU32(a.nl_pid, e)
                 \o WriteU32(a.nl_groups, e) \o stray]

\* -------------------------------------------- the callers of the conversions

\* Values the callers pass.
U16Samples == {0, 1, 2, 3, 4, 5, 9, 10, 11, 16, 255, 256, 65535}
MsgTypes ==
    {[tag |-> g, v |-> 0] :
        g \in {"Request", "Noop", "Error", "Done", "Overrun", "MinType"}}
    \cup {[tag |-> "UserDefined", v |-> t] : t \in U16Samples}
AddrPids == {U32(0), U32(7), <<4, 3, 2, 1>>, <<255, 255, 255, 255>>}
AddrGroups == {U32(0), U32(3), U32(10), <<0, 0, 0, 128>>}
StrayBytes == {<<0, 0, 0, 0>>, <<255, 255, 255, 255>>, <<16, 0, 7, 3>>}

\* MsgType::from(t), and the type turned into a u16 again.
TypeFromU16 ==
    /\ \E t \in U16Samples :
         /\ uin' = t
         /\ uout' = [type |-> MsgTypeFrom(t), back |-> MsgTypeInto(MsgTypeFrom(t))]
    /\ uop' = "MsgType::from"
    /\ UNCHANGED <<endian, codecVars, sockVars>>

\* m.into(), and the u16 turned into a type again.
TypeIntoU16 ==
    /\ \E m \in MsgTypes :
         /\ uin' = m
         /\ uout' = [u16 |-> MsgTypeInto(m), back |-> MsgTypeFrom(MsgTypeInto(m))]
    /\ uop' = "MsgType::into"
    /\ UNCHANGED <<endian, codecVars, sockVars>>

\* NetlinkAddr::new(p, g).as_sockaddr(), then sockaddr_to_netlinkaddr on it
\* (tests::netlink_addr_and_sockaddr).
AddrRoundTrip ==
    /\ \E p \in AddrPids, g \in AddrGroups, stray \in StrayBytes :
         LET sa == as_sockaddr(NetlinkAddr_new(p, g), endian, stray)
         IN  /\ uin' = [pid |-> p, groups |-> g]
             /\ uout' = [sa |-> sa, back |-> sockaddr_to_netlinkaddr(sa, endian)]
    /\ uop' = "address"
    /\ UNCHANGED <<endian, codecVars, sockVars>>

UnitNext == TypeFromU16 \/ TypeIntoU16 \/ AddrRoundTrip

\* ----------------------------------------------------------------- sockets

Sockets == {1, 2}

\* The address each socket is bound to (pid 99, 100), and the kernel's.
BoundPid(s) == U32(98 + s)
KernelPid == U32(0)

\* let bytes = 4096
BufBytes == 4096

\* buf.extend(repeat(0u8).take(bytes))
ZeroFill == [i \in 1..BufBytes |-> 0]

\* &buffer[n..]: the written bytes from n on, then what is left of the zero
\* fill of Socket::new.
BufferFrom(s, k) ==
    SubSeq(buf[s], k + 1, Len(buf[s]))
    \o SubSeq(ZeroFill, (IF k > Len(buf[s]) THEN k ELSE Len(buf[s])) + 1, BufBytes)

\* recvfrom copies the datagram to the start of the buffer and leaves the
\* rest of the buffer as it was.
Overlay(old, bytes) ==
    IF Len(bytes) >= Len(old) THEN bytes
    ELSE bytes \o SubSeq(old, Len(bytes) + 1, Len(old))

RECURSIVE Concat_aligned(_, _)
\* A faulty loop of Socket::send: every message padded to a multiple of four.
Concat_aligned(ms, e) ==
    IF ms = <<>> THEN <<>>
    ELSE LET b == Msg_bytes(Head(ms), e)
         IN  b \o Zeros(nlmsg_align(Len(b)) - Len(b)) \o Concat_aligned(Tail(ms), e)

RECURSIVE Concat(_, _)
\* The loop of Socket::send: every message's bytes, appended in order.
Concat(ms, e) ==
    IF ms = <<>> THEN <<>> ELSE Msg_bytes(Head(ms), e) \o Concat(Tail(ms), e)

\* A datagram in the kernel: its bytes and the sender's address, and, for
\* the record, the messages and the trailing bytes the sender put into it.
Datagram(ms, tail, family, p, e) ==
    [bytes |-> Concat(ms, e) \o tail, src |-> Sockaddr(family, p, U32(0), e),
     msgs |-> ms, tail |-> tail]

NoDatagram == [bytes |-> <<>>, src |-> Sockaddr(0, U32(0), U32(0), "LE"),
               msgs |-> <<>>, tail |-> <<>>]

\* Bounds of the model.
MaxMsgs == 3
MaxDatagrams == 2

\* The messages of test_send_recv (with a shorter payload), and the
\* sequences a caller sends.
MsgA ==
    Msg_new(pid(seq(multipart(data_length(request, U32(2))), U32(1)), U32(100)),
            PData(<<5, 6>>))
MsgDone == Msg_new(pid(done, U32(100)), PNone)
SendMsgs == {MsgA, MsgDone}
SendSeqs == UNION {[1..k -> SendMsgs] : k \in 0..MaxMsgs}

\* What the kernel itself sends: acknowledgements and errors, and datagrams
\* with bytes after the last message.
MsgAck == Msg_new(pid(error, U32(100)), PAck(MsgA.header))
MsgNack == Msg_new(pid(error, U32(100)), PErr(MsgA.header))
Tails == {<<1, 1, 1, 1, 1, 1, 1>>, <<0, 0, 0>>, <<16, 0, 0, 0>>, <<0, 0, 0, 16>>}
KernelDatagrams(e) ==
    {Datagram(<<MsgA>>, t, AF_NETLINK, KernelPid, e) : t \in Tails}
    \cup {Datagram(ms, <<>>, AF_NETLINK, KernelPid, e) :
            ms \in {<<MsgNack>>, <<MsgAck, MsgA, MsgDone>>}}
    \cup {Datagram(<<MsgA>>, <<>>, AF_INET, KernelPid, e)}

SockInit ==
    /\ buf = [s \in Sockets |-> <<>>]
    /\ pc = [s \in Sockets |-> "idle"]
    /\ cur = [s \in Sockets |-> NoDatagram]
    /\ off = [s \in Sockets |-> 0]
    /\ messages = [s \in Sockets |-> <<>>]
    /\ ret = [s \in Sockets |-> NoResult]
    /\ sret = [s \in Sockets |-> NoResult]
    /\ inbox = [s \in Sockets |-> <<>>]
    /\ arrived = [s \in Sockets |-> 0]

UnitInit ==
    /\ uop = "start"
    /\ uin = 0
    /\ uout = 0

Init == endian \in Endians /\ CodecInit /\ UnitInit /\ SockInit

\* Socket::send(messages, addr) on socket s, addr being socket t's address:
\* one sendto of the concatenated bytes, which the kernel queues for t.
Send(s, t, ms) ==
    /\ pc[s] = "idle"
    /\ arrived[t] < MaxDatagrams
    /\ inbox' = [inbox EXCEPT ![t] =
                   Append(@, Datagram(ms, <<>>, AF_NETLINK, BoundPid(s), endian))]
    /\ arrived' = [arrived EXCEPT ![t] = @ + 1]
    /\ sret' = [sret EXCEPT ![s] = Ok("sent", Len(Concat(ms, endian)))]
    /\ UNCHANGED <<endian, unitVars, codecVars, buf, pc, cur, off, messages, ret>>

\* Socket::send when sendto fails: the error is returned, nothing is queued.
SendFail(s) ==
    /\ pc[s] = "idle"
    /\ sret' = [sret EXCEPT ![s] = Fail("os error")]
    /\ UNCHANGED <<endian, unitVars, codecVars, buf, pc, cur, off, messages, ret, inbox,
                   arrived>>

\* The kernel queues a datagram of its own for socket t.
KernelSend(t, d) ==
    /\ arrived[t] < MaxDatagrams
    /\ inbox' = [inbox EXCEPT ![t] = Append(@, d)]
    /\ arrived' = [arrived EXCEPT ![t] = @ + 1]
    /\ UNCHANGED <<endian, unitVars, codecVars, buf, pc, cur, off, messages, ret, sret>>

\* A faulty Socket::recv up to the loop: one scratch buffer for all sockets,
\* so the datagram lands in every socket's buffer.
RecvCall_shared(s) ==
    /\ pc[s] = "idle"
    /\ inbox[s] # <<>>
    /\ LET d == Head(inbox[s])
           addr == sockaddr_to_netlinkaddr(d.src, endian)
       IN  /\ inbox' = [inbox EXCEPT ![s] = Tail(@)]
           /\ buf' = [t \in Sockets |-> Overlay(buf[t], d.bytes)]
           /\ cur' = [cur EXCEPT ![s] = d]
           /\ off' = [off EXCEPT ![s] = 0]
           /\ messages' = [messages EXCEPT ![s] = <<>>]
           /\ IF addr.ok
              THEN /\ pc' = [pc EXCEPT ![s] = "assemble"]
                   /\ ret' = [ret EXCEPT ![s] = NoResult]
              ELSE /\ pc' = pc
                   /\ ret' = [ret EXCEPT ![s] = addr]
    /\ UNCHANGED <<endian, unitVars, codecVars, sret, arrived>>

\* Socket::recv up to the loop: recvfrom_into fills the buffer with the next
\* datagram, the number of bytes received is dropped, and the sender's
\* address is converted (an address of another family ends the call).
RecvCall(s) ==
    /\ pc[s] = "idle"
    /\ inbox[s] # <<>>
    /\ LET d == Head(inbox[s])
           addr == sockaddr_to_netlinkaddr(d.src, endian)
       IN  /\ inbox' = [inbox EXCEPT ![s] = Tail(@)]
           /\ buf' = [buf EXCEPT ![s] = Overlay(@, d.bytes)]
           /\ cur' = [cur EXCEPT ![s] = d]
           /\ off' = [off EXCEPT ![s] = 0]
           /\ messages' = [messages EXCEPT ![s] = <<>>]
           /\ IF addr.ok
              THEN /\ pc' = [pc EXCEPT ![s] = "assemble"]
                   /\ ret' = [ret EXCEPT ![s] = NoResult]
              ELSE /\ pc' = pc
                   /\ ret' = [ret EXCEPT ![s] = addr]
    /\ UNCHANGED <<endian, unitVars, codecVars, sret, arrived>>

\* Socket::recv when recvfrom fails: the error is returned at once.
RecvFail(s) ==
    /\ pc[s] = "idle"
    /\ ret' = [ret EXCEPT ![s] = Fail("os error")]
    /\ UNCHANGED <<endian, unitVars, codecVars, buf, pc, cur, off, messages, sret, inbox,
                   arrived>>

\* What recv returns when its loop ends.
RecvOk(s, ms) ==
    [ok |-> TRUE, addr |-> sockaddr_to_netlinkaddr(cur[s].src, endian).val,
     msgs |-> ms]

\* A faulty loop exit: no message ends the loop.
TerminatorNone(m) == FALSE

\* The loop leaves on a decoded message of type Done and does not keep it.
IsTerminator(m) == msg_type(m.header).tag = "Done"

\* One turn of recv's while-let loop, in a build with or without overflow
\* checks: decode at the cursor; a failed decode or a Done ends the call.
Assemble(s) ==
    /\ pc[s] = "assemble"
    /\ \E checks \in BOOLEAN :
       \E slice \in {BufferFrom(s, off[s])} :
       \E r \in {Msg_from_bytes(slice, endian, checks)} :
            IF r = Panic
            THEN /\ pc' = [pc EXCEPT ![s] = "panicked"]
                 /\ ret' = [ret EXCEPT ![s] = Panic]
                 /\ UNCHANGED <<off, messages>>
            ELSE IF ~r.ok
            THEN /\ pc' = [pc EXCEPT ![s] = "idle"]
                 /\ ret' = [ret EXCEPT ![s] = RecvOk(s, messages[s])]
                 /\ UNCHANGED <<off, messages>>
            ELSE /\ off' = [off EXCEPT ![s] = @ + r.n]
                 /\ IF IsTerminator(r.val)
                    THEN /\ pc' = [pc EXCEPT ![s] = "idle"]
                         /\ ret' = [ret EXCEPT ![s] = RecvOk(s, messages[s])]
                         /\ UNCHANGED messages
                    ELSE /\ messages' = [messages EXCEPT ![s] = Append(@, r.val)]
                         /\ UNCHANGED <<pc, ret>>
    /\ UNCHANGED <<endian, unitVars, codecVars, buf, cur, sret, inbox, arrived>>

\* Socket 2 sends to socket 1, the kernel sends to socket 1, socket 1
\* receives (the two sockets of test_send_recv).
Next ==
    \/ \E ms \in SendSeqs : Send(2, 1, ms)
    \/ \E d \in KernelDatagrams(endian) : KernelSend(1, d)
    \/ RecvCall(1)
    \/ Assemble(1)

Spec == Init /\ [][Next]_vars

CodecSpec == Init /\ [][CodecNext]_vars

\* The same sockets with system calls that can fail.
IoNext == Next \/ SendFail(2) \/ RecvFail(1)

IoSpec == Init /\ [][IoNext]_vars

\* A caller building headers with every setter.
HeaderNext == Construct \/ Setter \/ FlagSetter

HeaderSpec == Init /\ [][HeaderNext]_vars

UnitSpec == Init /\ [][UnitNext]_vars

\* Two sockets, each driven by a thread of its own: either sends to the
\* other, the kernel sends to either, either receives, the steps of the two
\* interleaved in any order.
MaxPairDatagrams == 4
PairSeqs == {<<MsgA, MsgDone>>, <<MsgA>>}
PairKernelDatagrams(e) ==
    {Datagram(<<MsgAck, MsgA, MsgDone>>, <<>>, AF_NETLINK, KernelPid, e)}
Peer(s) == 3 - s
PairNext ==
    \E s \in Sockets :
        \/ /\ arrived[1] + arrived[2] < MaxPairDatagrams
           /\ \/ \E ms \in PairSeqs : Send(s, Peer(s), ms)
              \/ \E d \in PairKernelDatagrams(endian) : KernelSend(s, d)
        \/ RecvCall(s)
        \/ Assemble(s)

PairSpec == Init /\ [][PairNext]_vars


\* ========================================================================
\* Properties of the socket (specification Spec)
\* ========================================================================

\* A message as the sender meant it: the Done type carries nothing, the
\* Error type an Ack or an Err, any other type data of the declared length.
WellFormedMsg(m) ==
    CASE m.header.nl_type = 3 -> m.payload.tag = "None"
      [] m.header.nl_type = 2 -> m.payload.tag \in {"Ack", "Err"}
      [] OTHER -> /\ m.payload.tag = "Data"
                  /\ m.header.msg_length = U32(16 + Len(m.payload.data))

\* The place of the first Done-typed message in ms, 0 when there is none.
DonePos(ms) ==
    IF \E i \in 1..Len(ms) : ms[i].header.nl_type = 3
    THEN CHOOSE i \in 1..Len(ms) :
           /\ ms[i].header.nl_type = 3
           /\ \A j \in 1..(i - 1) : ms[j].header.nl_type # 3
    ELSE 0

IsPrefix(a, b) == Len(a) <= Len(b) /\ a = SubSeq(b, 1, Len(a))

\* The datagram of the current receive is well-formed messages up to a Done.
DoneTerminated(d) ==
    /\ d.src.sa_family = AF_NETLINK
    /\ DonePos(d.msgs) > 0
    /\ \A i \in 1..DonePos(d.msgs) : WellFormedMsg(d.msgs[i])

\* C1: a receive of a datagram made of well-formed messages followed by a
\* Done message returns exactly the messages before the first Done, in wire
\* order; the Done itself is never collected nor returned, and nothing
\* after it in the datagram is returned.
C1_DoneEndsAssembly ==
    \A s \in Sockets :
        /\ \A i \in 1..Len(messages[s]) : messages[s][i].header.nl_type # 3
        /\ ret[s].ok => \A i \in 1..Len(ret[s].msgs) : ret[s].msgs[i].header.nl_type # 3
        /\ DoneTerminated(cur[s]) =>
             LET before == SubSeq(cur[s].msgs, 1, DonePos(cur[s].msgs) - 1)
             IN  /\ pc[s] # "panicked"
                 /\ IsPrefix(messages[s], before)
                 /\ pc[s] = "idle" => ret[s].ok /\ ret[s].msgs = before

\* C1 witness: the kernel's Ack, A, Done was received and Ack, A returned;
\* and A, A, Done from the peer gave A, A.
C1_Witness ==
    /\ pc[1] = "idle" /\ ret[1].ok
    /\ cur[1].msgs = <<MsgAck, MsgA, MsgDone>>
    /\ ret[1].msgs = <<MsgAck, MsgA>>

\* C2: the messages a receive returns are decoded from the first `total`
\* bytes of the datagram it received, total being the datagram's length:
\* together they are no longer than the datagram.
C2_OnlyReceivedBytes ==
    \A s \in Sockets :
        (pc[s] = "idle" /\ ret[s].ok) =>
            Len(Concat(ret[s].msgs, endian)) <= Len(cur[s].bytes)

\* Well-formed messages, no Done, then fewer than 16 trailing bytes.
Truncated(d) ==
    /\ d.src.sa_family = AF_NETLINK
    /\ d.msgs # <<>>
    /\ DonePos(d.msgs) = 0
    /\ \A i \in 1..Len(d.msgs) : WellFormedMsg(d.msgs[i])
    /\ Len(d.tail) > 0 /\ Len(d.tail) < 16

\* C3: a receive of well-formed messages followed by fewer than 16 trailing
\* bytes returns successfully with exactly the well-formed messages.
C3_TruncationTolerated ==
    \A s \in Sockets :
        (Truncated(cur[s]) /\ pc[s] # "assemble") =>
            ret[s].ok /\ ret[s].msgs = cur[s].msgs


\* ========================================================================
\* Properties of the codec (specification CodecSpec)
\* ========================================================================

\* The header at the front of wire, when wire holds one.
WireHeader == NlMsgHeader_from_bytes(wire, endian)

\* The header's type is neither Done nor Error.
CarriesData(h) == h.nl_type # 3 /\ h.nl_type # 2

\* The header's length field as an integer, -1 when beyond any buffer here.
LengthField(h) ==
    IF \A i \in 3..U32Bytes : h.msg_length[i] = 0
    THEN h.msg_length[1] + 256 * h.msg_length[2]
    ELSE -1

\* Header type and payload variant agree.
Agrees(m) ==
    CASE m.header.nl_type = 3 -> m.payload.tag = "None"
      [] m.header.nl_type = 2 -> m.payload.tag \in {"Ack", "Err"}
      [] OTHER -> m.payload.tag = "Data"

\* msg was built by Msg::new, encoded, and its bytes decoded untouched.
RoundTripped == cop = "Msg::from_bytes" /\ wkind = "msg" /\ tam = "intact"

\* msg has a header of a data-carrying type with data_length(L) applied
\* and a Data payload of exactly L bytes.
DataMessage(m) ==
    /\ CarriesData(m.header)
    /\ m.payload.tag = "Data"
    /\ m.header = data_length(m.header, U32(Len(m.payload.data)))

\* C4: a message of a type other than Done and Error, with data_length(L)
\* applied and a Data payload of exactly L bytes, encoded and decoded again,
\* gives a message equal to the original and 16 + L bytes consumed.
C4_MessageRoundTrip ==
    (RoundTripped /\ DataMessage(msg)) =>
        /\ res.ok
        /\ res.val = msg
        /\ res.n = 16 + Len(msg.payload.data)

\* C4 witness: a two-byte message made the round trip.
C4_Witness ==
    /\ RoundTripped /\ DataMessage(msg)
    /\ msg.payload.data = <<7, 8>>
    /\ res.ok /\ res.n = 18

\* C5: a header built with request() and any setters, encoded and decoded
\* again, gives a header equal in all five fields and 16 bytes consumed.
C5_HeaderRoundTrip ==
    (cop = "NlMsgHeader::from_bytes" /\ wkind = "header" /\ tam = "intact"
     /\ hdr.nl_type = request.nl_type) =>
        /\ res.ok
        /\ res.val.msg_length = hdr.msg_length
        /\ res.val.nl_type = hdr.nl_type
        /\ res.val.flags = hdr.flags
        /\ res.val.seq = hdr.seq
        /\ res.val.pid = hdr.pid
        /\ res.n = 16

\* C5 witness: a request header with length, flags, seq and pid all set
\* made the round trip.
C5_Witness ==
    /\ cop = "NlMsgHeader::from_bytes" /\ wkind = "header" /\ tam = "intact"
    /\ hdr = dump(multipart(pid(seq(data_length(request, U32(2)),
                                    <<4, 3, 2, 1>>), U32(9))))
    /\ res.ok /\ res.val = hdr

\* C6: decoding a message whose header has a type other than Done and Error
\* and a length field below 16 returns a decoding error; it never aborts.
C6_UnderflowGuarded ==
    (cop = "Msg::from_bytes" /\ WireHeader.ok
     /\ CarriesData(WireHeader.val)
     /\ LengthField(WireHeader.val) >= 0
     /\ LengthField(WireHeader.val) < 16) =>
        IsError(res)

\* The decode's outcome the claim C7 states, for the header h of wire.
PayloadLengthDecides(h) ==
    LET declared == LengthField(h) - 16
        remaining == Len(wire) - 16
    IN  IF LengthField(h) < 0 \/ declared > remaining
        THEN IsError(res)
        ELSE /\ res.ok
             /\ res.val.payload = PData(SubSeq(wire, 17, 16 + declared))

\* C7 as stated: message decode fails whenever the declared payload length
\* (length - 16) is larger than what remains after the header, and succeeds
\* with a Data payload of exactly length - 16 bytes whenever that many remain.
C7_PayloadLengthChecked ==
    (cop = "Msg::from_bytes" /\ WireHeader.ok
     /\ (LengthField(WireHeader.val) < 0 \/ LengthField(WireHeader.val) >= 16)) =>
        PayloadLengthDecides(WireHeader.val)

\* C7 amended: the same, for headers of a type other than Done and Error.
C7_DataLengthChecked ==
    (cop = "Msg::from_bytes" /\ WireHeader.ok
     /\ CarriesData(WireHeader.val)
     /\ (LengthField(WireHeader.val) < 0 \/ LengthField(WireHeader.val) >= 16)) =>
        PayloadLengthDecides(WireHeader.val)

\* C7 witness: a request header declaring two payload bytes with one byte
\* after it was refused.
C7_Witness ==
    /\ cop = "Msg::from_bytes" /\ WireHeader.ok
    /\ CarriesData(WireHeader.val)
    /\ LengthField(WireHeader.val) = 18
    /\ Len(wire) = 17
    /\ IsError(res)

\* C8: decoding an error record of at least 20 bytes gives Ack for the code
\* 0 and Err for every other code, with the header decoded from bytes 4..20
\* embedded, and 20 bytes consumed; fewer than 20 bytes give an error.
C8_ErrorRecordDecode ==
    cop = "Payload::nlmsg_error" =>
        IF Len(wire) >= 20
        THEN /\ res.ok
             /\ res.n = 20
             /\ res.val.tag =
                  IF \A i \in 1..4 : wire[i] = 0 THEN "Ack" ELSE "Err"
             /\ res.val.hdr = NlMsgHeader_from_bytes(SubSeq(wire, 5, 20), endian).val
             /\ wkind = "errrec" => res.val.hdr = hdr
        ELSE IsError(res)

\* C8 witness: the code 0x01000000 before a header decoded to Err of that
\* header.
C8_Witness ==
    /\ cop = "Payload::nlmsg_error" /\ wkind = "errrec" /\ tam = "intact"
    /\ SubSeq(wire, 1, 4) = WriteU32(<<0, 0, 0, 1>>, endian)
    /\ res.ok /\ res.val = PErr(hdr)

\* C9: header decode fails on fewer than 16 bytes; on 16 bytes or more it
\* succeeds with 16 bytes consumed, whatever the fields and the bytes after.
C9_HeaderDecodeLength ==
    cop = "NlMsgHeader::from_bytes" =>
        IF Len(wire) < 16
        THEN IsError(res)
        ELSE res.ok /\ res.n = 16

\* C9 witness: fifteen bytes of a header were refused.
C9_Witness ==
    /\ cop = "NlMsgHeader::from_bytes"
    /\ Len(wire) = 15
    /\ IsError(res)

\* C10: every message, built by Msg::new or produced by Msg::from_bytes,
\* has a payload variant that agrees with its header's type.
C10_TypePayloadAgreement ==
    /\ cop = "msg" => Agrees(msg)
    /\ (cop = "Msg::from_bytes" /\ res.ok) => Agrees(res.val)


\* ========================================================================
\* Properties of header construction (specifications HeaderSpec, CodecSpec)
\* ========================================================================

\* C11: data_length(payload_len) leaves length = payload_len + 16 without
\* wrapping, so a header reached from any constructor by any setters has a
\* length of at least 16.
C11_LengthAtLeastHeader ==
    cop = "header" => LengthField(hdr) \notin 0..15

\* The headers the claim C12 says the constructors give.
Prefilled ==
    {[msg_length |-> <<16, 0, 0, 0>>, nl_type |-> 0, flags |-> 1,
      seq |-> <<0, 0, 0, 0>>, pid |-> <<0, 0, 0, 0>>],
     [msg_length |-> <<16, 0, 0, 0>>, nl_type |-> 3, flags |-> 2,
      seq |-> <<0, 0, 0, 0>>, pid |-> <<0, 0, 0, 0>>],
     [msg_length |-> <<16 + 4 + 16, 0, 0, 0>>, nl_type |-> 2, flags |-> 0,
      seq |-> <<0, 0, 0, 0>>, pid |-> <<0, 0, 0, 0>>]}
    \cup {[msg_length |-> <<16, 0, 0, 0>>, nl_type |-> t, flags |-> 1,
           seq |-> <<0, 0, 0, 0>>, pid |-> <<0, 0, 0, 0>>] : t \in UserTypes}

\* C12: request() gives length 16, type Request and the Request flag;
\* done() length 16, type Done and the Multi flag; user_defined(t) length
\* 16, type t and the Request flag; error() type Error, no flag and the
\* length 16 + 4 + 16 of an error message; seq and pid are 0 in all four.
C12_ConstructorsPrefill ==
    [][(cop = "start" /\ cop' = "header") => hdr' \in Prefilled]_vars

\* C12 witness: error() was called and gave the header of length 36.
C12_Witness ==
    /\ cop = "header"
    /\ hdr = [msg_length |-> <<36, 0, 0, 0>>, nl_type |-> 2, flags |-> 0,
              seq |-> <<0, 0, 0, 0>>, pid |-> <<0, 0, 0, 0>>]

\* The positions of the bits set in the u16 f.
BitsOf(f) == {i \in 0..15 : (f \div (2 ^ i)) % 2 = 1}

\* C13: on any header, dump() sets exactly the bits 0x100 and 0x200 on top
\* of the flags already set; root() then match_provided(), in either order,
\* gives the same flags as dump(); every flag setter only adds bits (none
\* is cleared) and a second call of it changes nothing.
C13_FlagComposition ==
    cop = "header" =>
        /\ BitsOf(dump(hdr).flags) = BitsOf(hdr.flags) \cup {8, 9}
        /\ match_provided(root(hdr)) = dump(hdr)
        /\ root(match_provided(hdr)) = dump(hdr)
        /\ \A n \in FlagSetters :
             /\ BitsOf(hdr.flags) \subseteq BitsOf(ApplyFlag(n, hdr).flags)
             /\ ApplyFlag(n, ApplyFlag(n, hdr)) = ApplyFlag(n, hdr)

\* C13 witness: a request header with the Ack flag on which dump(), or
\* root() and match_provided(), were called.
C13_Witness ==
    /\ cop = "header"
    /\ hdr.nl_type = 0
    /\ BitsOf(hdr.flags) = {0, 2, 8, 9}

\* The bytes of a field, given least significant first, in host order.
HostOrder(d) == IF endian = "LE" THEN d ELSE [i \in 1..Len(d) |-> d[Len(d) + 1 - i]]

\* The header bytes just produced by NlMsgHeader::bytes for hdr.
HeaderEncoded == cop = "encoded" /\ wkind = "header" /\ tam = "intact"

\* C14: header encode gives exactly 16 bytes: length (4), type (2), flags
\* (2), sequence (4), pid (4), in that order and each in host byte order; on
\* a little-endian host request().data_length(4).pid(9).seq(1).dump()
\* encodes to 20,0,0,0, 0,0, 1,3, 1,0,0,0, 9,0,0,0.
C14_HeaderLayout ==
    HeaderEncoded =>
        /\ Len(wire) = 16
        /\ SubSeq(wire, 1, 4) = HostOrder(hdr.msg_length)
        /\ SubSeq(wire, 5, 6) = HostOrder(<<hdr.nl_type % 256, hdr.nl_type \div 256>>)
        /\ SubSeq(wire, 7, 8) = HostOrder(<<hdr.flags % 256, hdr.flags \div 256>>)
        /\ SubSeq(wire, 9, 12) = HostOrder(hdr.seq)
        /\ SubSeq(wire, 13, 16) = HostOrder(hdr.pid)
        /\ (endian = "LE"
            /\ hdr = dump(seq(pid(data_length(request, <<4, 0, 0, 0>>),
                                  <<9, 0, 0, 0>>), <<1, 0, 0, 0>>))) =>
               wire = <<20, 0, 0, 0, 0, 0, 1, 3, 1, 0, 0, 0, 9, 0, 0, 0>>

\* C14 witness: the header of test_encoding was encoded on a little-endian
\* host.
C14_Witness ==
    /\ HeaderEncoded
    /\ endian = "LE"
    /\ hdr = dump(seq(pid(data_length(request, <<4, 0, 0, 0>>),
                          <<9, 0, 0, 0>>), <<1, 0, 0, 0>>))
    /\ wire = <<20, 0, 0, 0, 0, 0, 1, 3, 1, 0, 0, 0, 9, 0, 0, 0>>

\* ========================================================================
\* Properties of the conversions (specification UnitSpec)
\* ========================================================================

\* C15: an address built with new(pid, groups), turned into the generic
\* socket address (tagged with the Netlink family) and back, reports the
\* same pid and groups.
C15_AddressRoundTrip ==
    uop = "address" =>
        /\ uout.sa.sa_family = 16
        /\ uout.back.ok
        /\ uout.back.val.nl_pid = uin.pid
        /\ uout.back.val.nl_groups = uin.groups

\* C15 witness: new(7, 3) made the round trip, with stray bytes behind the
\* address.
C15_Witness ==
    /\ uop = "address"
    /\ uin = [pid |-> <<7, 0, 0, 0>>, groups |-> <<3, 0, 0, 0>>]
    /\ SubSeq(uout.sa.sa_data, 11, 14) = <<255, 255, 255, 255>>
    /\ uout.back.ok
    /\ uout.back.val.nl_pid = <<7, 0, 0, 0>>
    /\ uout.back.val.nl_groups = <<3, 0, 0, 0>>

\* ========================================================================
\* Properties of send and receive (specifications Spec, IoSpec)
\* ========================================================================

\* The datagram d was sent by the peer socket 2 with Socket::send.
FromPeer(d) ==
    /\ d.src.sa_family = AF_NETLINK
    /\ ReadU32(d.src.sa_data, 2, endian).val = BoundPid(2)

\* The encodings of the messages ms one after the other, nothing between.
Flat(ms) ==
    LET F[i \in 0..Len(ms)] ==
            IF i = 0 THEN <<>>
            ELSE F[i - 1] \o NlMsgHeader_bytes(ms[i].header, endian)
                          \o Payload_bytes(ms[i].payload, endian)
    IN  F[Len(ms)]

\* C16: a send hands the transport one datagram whose bytes are the
\* encodings of the messages of the sequence, in the caller's order with
\* nothing between them, and reports that many bytes sent; the peer's
\* receive of that datagram returns the sent messages before the first
\* Done, equal to the originals, and the sender's address.
C16_SendConcatenates ==
    /\ \A i \in 1..Len(inbox[1]) :
         FromPeer(inbox[1][i]) => inbox[1][i].bytes = Flat(inbox[1][i].msgs)
    /\ FromPeer(cur[1]) => cur[1].bytes = Flat(cur[1].msgs)
    /\ (sret[2].ok /\ inbox[1] # <<>> /\ FromPeer(inbox[1][Len(inbox[1])])) =>
           sret[2].n = Len(inbox[1][Len(inbox[1])].bytes)
    /\ (FromPeer(cur[1]) /\ DonePos(cur[1].msgs) > 0 /\ pc[1] = "idle") =>
           /\ ret[1].ok
           /\ ret[1].msgs = SubSeq(cur[1].msgs, 1, DonePos(cur[1].msgs) - 1)
           /\ ret[1].addr.nl_pid = BoundPid(2)

\* C16 witness: the peer sent A, A, Done (test_send_recv) as one datagram
\* of 52 bytes and the receive returned A, A.
C16_Witness ==
    /\ FromPeer(cur[1])
    /\ cur[1].msgs = <<MsgA, MsgA, MsgDone>>
    /\ Len(cur[1].bytes) = 52
    /\ pc[1] = "idle"
    /\ ret[1].ok
    /\ ret[1].msgs = <<MsgA, MsgA>>

\* The numbers of the named message types.
ReservedTypes == {0, 1, 2, 3, 4, 10}

\* C17 as stated: a u16 turned into a message type and back is the same
\* u16, and a message type (UserDefined(v) for every v included) turned
\* into a u16 and back is the same message type.
C17_TypeBothWays ==
    /\ uop = "MsgType::from" => uout.back = uin
    /\ uop = "MsgType::into" => uout.back = uin

\* C17 amended: the same, UserDefined(v) only for the v that are not the
\* number of a named type.
C17_TypeBothWaysUnreserved ==
    /\ uop = "MsgType::from" => uout.back = uin
    /\ (uop = "MsgType::into"
        /\ ~(uin.tag = "UserDefined" /\ uin.v \in ReservedTypes)) =>
           uout.back = uin

\* C17 witness: UserDefined(16) went to 16 and back.
C17_Witness ==
    /\ uop = "MsgType::into"
    /\ uin = [tag |-> "UserDefined", v |-> 16]
    /\ uout.u16 = 16
    /\ uout.back = uin

\* C18: a receive returns an error and no messages in exactly two cases:
\* the transport's receive failed (its error is returned unchanged) or the
\* sender's address is not of the Netlink family (an invalid-address error,
\* no assembly); in every other case it returns the converted address of
\* the sender together with the assembled messages.
C18_RecvErrorCases ==
    \A s \in Sockets :
        (pc[s] # "assemble" /\ ret[s] # NoResult) =>
            \/ ret[s] = Fail("os error")
            \/ /\ cur[s].src.sa_family # AF_NETLINK
               /\ ret[s] = Fail("InvalidInput")
               /\ messages[s] = <<>>
            \/ /\ cur[s].src.sa_family = AF_NETLINK
               /\ ret[s].ok
               /\ ret[s].addr.nl_pid = ReadU32(cur[s].src.sa_data, 2, endian).val
               /\ ret[s].msgs = messages[s]

\* C19: the assembly loop ends in a single pass: every turn that decodes a
\* message moves the cursor on by at least 16 bytes, the cursor never
\* passes the end of the buffer (so the turns are finitely many), and the
\* loop ends in a terminal state, a Done seen or a decode failed, with the
\* call returning.
C19_LoopTerminates ==
    \A s \in Sockets :
        /\ off[s] <= BufBytes
        /\ 16 * Len(messages[s]) <= off[s]
        /\ pc[s] \in {"idle", "assemble"}

\* ========================================================================
\* More properties of the codec (specification CodecSpec)
\* ========================================================================

\* The number n as the four bytes of a u32, least significant first.
AsLength(n) == <<n % 256, (n \div 256) % 256, (n \div 65536) % 256, 0>>

\* C20 as stated: for every message that Msg::from_bytes accepts, of any
\* type, the number of bytes reported consumed equals the length field of
\* the decoded header.
C20_ConsumedIsLength ==
    (cop = "Msg::from_bytes" /\ res.ok) =>
        res.val.header.msg_length = AsLength(res.n)

\* C20 amended: for an accepted message of a type other than Done and
\* Error the bytes consumed equal the header's length field; a Done message
\* consumes 16 bytes and an Error message 16 + 4 + 16, whatever their
\* length fields say.
C20_ConsumedByType ==
    (cop = "Msg::from_bytes" /\ res.ok) =>
        CASE res.val.header.nl_type = 3 -> res.n = 16
          [] res.val.header.nl_type = 2 -> res.n = 16 + 4 + 16
          [] OTHER -> res.val.header.msg_length = AsLength(res.n)

\* C20 witness: an error message with the length field error() gives it
\* was decoded and 36 bytes were consumed.
C20_Witness ==
    /\ cop = "Msg::from_bytes" /\ res.ok
    /\ res.val.header.nl_type = 2
    /\ res.val.header.msg_length = <<36, 0, 0, 0>>
    /\ res.val.payload.tag = "Err"
    /\ res.n = 36

\* ----------------------------------------------------------------- C21

\* C21: decoding ignores trailing bytes.  Whenever the header decoder or
\* the message decoder has been called on the wire bytes, every leading
\* part b of those bytes that decodes successfully on its own (in either
\* build) gives the very result of the call: b followed by the rest of the
\* wire decodes to the same value with the same number of bytes consumed.
C21_TrailingBytesIgnored ==
    /\ cop = "NlMsgHeader::from_bytes" =>
         \A k \in 0..Len(wire) :
            LET r == NlMsgHeader_from_bytes(SubSeq(wire, 1, k), endian)
            IN  r.ok => res = r
    /\ cop = "Msg::from_bytes" =>
         \A k \in 0..Len(wire), checks \in BOOLEAN :
            LET r == Msg_from_bytes(SubSeq(wire, 1, k), endian, checks)
            IN  r.ok => res = r

\* A message with a two-byte payload was encoded, other bytes were put
\* after it, and the decoder returned the message and the encoded length.
C21_Witness ==
    /\ cop = "Msg::from_bytes" /\ wkind = "msg" /\ tam = "extended"
    /\ msg.payload = PData(<<7, 8>>)
    /\ Len(wire) = 18 + Len(Junk)
    /\ res.ok /\ res.val = msg /\ res.n = 18
    /\ Msg_from_bytes(SubSeq(wire, 1, 18), endian, TRUE) = res

\* ----------------------------------------------------------------- C22

\* A message whose header was built by error() (and its setters) and whose
\* payload is an acknowledgement or an error record.
ControlMessage(m) ==
    /\ msg_type(m.header).tag = "Error"
    /\ m.payload.tag \in {"Ack", "Err"}

\* C22: control-record round trip.  A control message is encoded as its 16
\* header bytes, a 4-byte zero (Ack) or one (Err) and the 16 bytes of the
\* embedded header; decoding these bytes, as they are, yields the message
\* that was encoded, tag and embedded header included, and consumes all of
\* them.
C22_ControlRoundTrip ==
    (/\ wkind = "msg" /\ tam = "intact" /\ ControlMessage(msg)
     /\ cop \in {"encoded", "Msg::from_bytes"})
    => /\ wire = NlMsgHeader_bytes(msg.header, endian)
                 \o WriteU32(U32(IF msg.payload.tag = "Ack" THEN 0 ELSE 1),
                             endian)
                 \o NlMsgHeader_bytes(msg.payload.hdr, endian)
       /\ cop = "Msg::from_bytes" =>
            /\ res.ok
            /\ res.val = msg
            /\ res.val.payload.tag = msg.payload.tag
            /\ res.val.payload.hdr = msg.payload.hdr
            /\ res.n = Len(wire)

\* The message of tests::test_msg_decode_with_err went through encode and
\* decode: error() with pid 9 and seq 1, carrying Err of the request header.
C22_Witness ==
    /\ cop = "Msg::from_bytes" /\ wkind = "msg" /\ tam = "intact"
    /\ msg.header = seq(pid(error, U32(9)), U32(1))
    /\ msg.payload = PErr(EmbeddedHeader)
    /\ res.ok /\ res.val = msg /\ res.n = 36

\* ----------------------------------------------------------------- C23

\* What a socket instance owns: its scratch buffer, the position of its
\* receive call, and what that call returned.
Local(s) == <<buf[s], pc[s], cur[s], off[s], messages[s], ret[s]>>

\* C23: socket instances are independent.  With the send and receive steps
\* of two sockets interleaved in any order, the state of a socket (scratch
\* buffer, receive cursor, collected messages, returned address and
\* messages) changes only in a step of that socket's own receive call,
\* which reads that socket's buffer and the datagram delivered to it; in
\* such a step nothing of the other socket changes.  Hence what a receive
\* returns is what it would return had the other socket done nothing.
C23_InstancesIndependent ==
    [][\A s \in Sockets :
          Local(s)' # Local(s) =>
             /\ RecvCall(s) \/ Assemble(s)
             /\ \A t \in Sockets \ {s} : Local(t)' = Local(t)]_vars

\* Both sockets are inside a receive call at once, each part-way through a
\* different datagram in its own buffer.
C23_Witness ==
    /\ pc[1] = "assemble" /\ pc[2] = "assemble"
    /\ off[1] = 18 /\ off[2] = 36
    /\ Len(messages[1]) = 1 /\ Len(messages[2]) = 1
    /\ buf[1] # buf[2]

=============================================================================
